---- MODULE Spec2Model ----
(***************************************************************************)
(* Signaling relay of UnTamed (src/server.js): the host and client slots,  *)
(* the rotating passcode, the per-connection message and close handlers    *)
(* and the passcode timer, as one state machine.                           *)
(*                                                                         *)
(* A connection is an index in Conns; Null (0) is JavaScript's null.  A    *)
(* string is the sequence of its characters where the program looks into   *)
(* it (the passcode, a sequence of decimal digits) and a sequence of       *)
(* tokens where it only cuts and compares (a remote address).              *)
(*                                                                         *)
(* Beside the relay (Spec): the certificate life cycle and the command     *)
(* handlers of the server (CertSpec), both together (ServerSpec),          *)
(* msUntilNextDayOfMonth of src/untamed.js (DateSpec) and the address test *)
(* (AddrSpec), and the command-line launcher of src/untamed.js             *)
(* (LauncherSpec).  Calendar time is counted in whole hours.               *)
(***************************************************************************)
EXTENDS Integers, Sequences, FiniteSets, TLC

\* ------------------------------------------------------------- bounds

\* Number of WebSocket connection handles alive at once (a handle whose
\* close has been processed may be taken again by a new connection).
NumConns == 2

\* Number of clock advances, each to just past one more passcode period.
MaxTicks == 1

\* ---------------------------------------------------------- constants

Null == 0

Conns == 1..NumConns

PASSCODE_EXPIRY_MS == 5 * 60 * 1000

\* The clock advances by one passcode period and a millisecond.
TickMs == PASSCODE_EXPIRY_MS + 1

\* Results of crypto.randomInt(0, 900000) the model draws: the two ends of
\* the range.
RandomInts == {0, 899999}

\* WebSocket ready states (ws: OPEN = 1, CLOSING = 2, CLOSED = 3); "NONE" is a
\* handle no connection uses yet.
ReadyStates == {"NONE", "OPEN", "CLOSING", "CLOSED"}

\* Remote addresses as token sequences; Undefined is a socket without one.
Undefined == <<"undefined">>

\* os.networkInterfaces(): the addresses bound to the machine's interfaces.
InterfaceAddrs == {<<"127.0.0.1">>, <<"::1">>, <<"192.168.1.10">>,
                   <<"fe80::1", "%", "eth0">>}

\* socket.remoteAddress of a new connection: loopback, or an IPv4-mapped
\* address of another machine on the LAN.
RemoteAddrs == {<<"::1">>, <<"::ffff:", "192.168.1.77">>}

\* ---------------------------------------------------- pure functions

RECURSIVE Digits(_)
\* The decimal digits of a natural number, most significant first.
Digits(n) == IF n < 10 THEN <<n>> ELSE Append(Digits(n \div 10), n % 10)

\* String(n) for a non-negative integer n.
String(n) == Digits(n)

\* First index of token t in s, 0 when absent (indexOf, 1-based).
RECURSIVE IndexFrom(_, _, _)
IndexFrom(s, t, i) ==
    IF i > Len(s) THEN 0
    ELSE IF s[i] = t THEN i ELSE IndexFrom(s, t, i + 1)

IndexOf(s, t) == IndexFrom(s, t, 1)

\* Faulty variant of normalizeAddr: the '::ffff:' prefix is kept.
normalizeAddr_KeepsMapped(addr) ==
    IF addr = Undefined \/ addr = <<>> THEN addr
    ELSE LET pct == IndexOf(addr, "%")
             a1  == IF pct # 0 THEN SubSeq(addr, 1, pct - 1) ELSE addr
         IN  IF a1 = <<"::1">> THEN <<"127.0.0.1">> ELSE a1

\* normalizeAddr: a falsy address is returned as it is; otherwise the zone
\* suffix from '%' on is cut, a leading '::ffff:' is removed and '::1'
\* becomes '127.0.0.1'.
normalizeAddr(addr) ==
    IF addr = Undefined \/ addr = <<>> THEN addr
    ELSE LET pct == IndexOf(addr, "%")
             a1  == IF pct # 0 THEN SubSeq(addr, 1, pct - 1) ELSE addr
             a2  == IF Len(a1) > 0 /\ a1[1] = "::ffff:" THEN Tail(a1) ELSE a1
         IN  IF a2 = <<"::1">> THEN <<"127.0.0.1">> ELSE a2

\* getLocalAddresses: loopback in both forms plus every normalized, non-empty
\* interface address.
getLocalAddresses ==
    {<<"127.0.0.1">>, <<"::1">>}
        \cup {normalizeAddr(a) : a \in {b \in InterfaceAddrs : normalizeAddr(b) # <<>>}}

\* The test of the host branch: !remote || !localAddrs.has(remote), negated.
IsLocal(remoteRaw) ==
    LET remote == normalizeAddr(remoteRaw)
    IN  remote # Undefined /\ remote # <<>> /\ remote \in getLocalAddresses

\* ------------------------------------------------------------ messages

\* Codes generatePasscode can produce in the model.
Codes == {String(100000 + r) : r \in RandomInts}

\* A passcode field of a client registration: a JSON string (its characters)
\* or a JSON number.
PasscodeValues ==
    {[str |-> p] : p \in Codes} \cup {[num |-> 100000 + r] : r \in {0}}

\* A frame a peer makes up in the shape of the server's passcodeUpdated,
\* addressed to the host, with a code the server never issues.
ForgedUpdate ==
    [json |-> "object", type |-> "passcodeUpdated", to |-> "host",
     code |-> <<0, 0, 0, 0, 0, 0>>, expiresAt |-> 0, used |-> FALSE]

\* Inbound frames by the JSON value they hold: text that does not parse,
\* null, a number, or an object with a type and optional passcode / to.
Frames ==
    {ForgedUpdate} \cup
    {[json |-> "invalid"], [json |-> "null"], [json |-> "number"]}
        \cup {[json |-> "object", type |-> "host"]}
        \cup {[json |-> "object", type |-> "client"]}
        \cup {[json |-> "object", type |-> "client", passcode |-> v] : v \in PasscodeValues}
        \cup {[json |-> "object", type |-> t] : t \in {"offer", "answer", "candidate", "bye"}}
        \cup {[json |-> "object", type |-> t, to |-> d] :
                t \in {"offer", "answer", "candidate", "bye"}, d \in {"host", "client"}}

\* Whether the parsed value has the field f (data.f is not undefined).
Has(data, f) == f \in DOMAIN data

\* data.type === t and data.to === d; both are undefined on a number.
TypeIs(data, t) == Has(data, "type") /\ data.type = t

ToIs(data, d) == Has(data, "to") /\ data.to = d

\* (data.passcode || "").toString() of a client registration: "" without the
\* field, the string itself, or the decimal digits of a (non-zero) number.
Provided(data) ==
    IF ~Has(data, "passcode") THEN <<>>
    ELSE IF "str" \in DOMAIN data.passcode THEN data.passcode.str
    ELSE String(data.passcode.num)

\* ---------------------------------------------------------------- state

VARIABLES
    running,          \* the process has not been ended by an uncaught exception
    now,              \* Date.now()
    timerDue,         \* when the setInterval timer is next due
    hostSocket,       \* Null or the connection in the host slot
    clientSocket,     \* Null or the connection in the client slot
    currentPasscode,  \* [code, expiresAt, used]
    readyState,       \* readyState of every connection handle
    remoteAddress,    \* ws._socket.remoteAddress of every connection handle
    admission,        \* history: per handle, "none", or admitted as client under
                      \* the "current" passcode or under an "old" one
    spent,            \* history: a connection admitted under the current passcode
                      \* has had its close event handled
    ev,               \* history: the event handled last
    out               \* history: the messages the last event delivered, in order

vars == <<running, now, timerDue, hostSocket, clientSocket, currentPasscode,
          readyState, remoteAddress, admission, spent, ev, out>>

\* ------------------------------------------- certificates and calendar

\* Key pairs generateSelfSignedCert may produce in one run of the model.
MaxGen == 2

\* The year of the epoch: the calendar clock counts whole hours of local time
\* from 1 January of this year, 00:00 (days of 24 hours).
EpochYear == 2024

\* Bound on the number of server processes the launcher spawns.
MaxPid == 3

VARIABLES
    clock,      \* Date.now() on the calendar, in hours since the epoch
    disk,       \* the files KEY_PATH and CERT_PATH: [key, cert]
    live,       \* the key and certificate the HTTPS server presents
    timers,     \* the pending setTimeout timers of the monthly rotation
    gen,        \* number of key pairs generated so far
    day,        \* msUntilNextDayOfMonth: its argument
    ms,         \* msUntilNextDayOfMonth: its result
    address,    \* the address test: the remote address it is given
    verdict,    \* the address test: its outcome
    pidFile,    \* the launcher's PID_FILE: the pid it holds, Missing if absent
    procs,      \* the pids of the server processes that are alive
    spawned     \* number of server processes spawned so far

certVars == <<clock, disk, live, timers, gen>>

launcherVars == <<pidFile, procs, spawned>>

otherVars == <<certVars, day, ms, address, verdict, launcherVars>>

MsPerHour == 60 * 60 * 1000

\* The longest delay a Node timer takes (2^31 - 1 ms); setTimeout replaces a
\* longer one by 1 ms.
TIMEOUT_MAX == 2147483647

\* opts.days of generateSelfSignedCert.
CertDays == 183

\* FIVE_MONTHS_MS, in hours.
FIVE_MONTHS == 24 * 30 * 5

IsLeap(y) == (y % 4 = 0 /\ y % 100 # 0) \/ y % 400 = 0

\* Days of month m (0 = January, as Date counts months) of year y.
DaysInMonth(y, m) ==
    IF m = 1 THEN (IF IsLeap(y) THEN 29 ELSE 28)
    ELSE IF m \in {3, 5, 8, 10} THEN 30 ELSE 31

DaysInYear(y) == IF IsLeap(y) THEN 366 ELSE 365

RECURSIVE DaysBeforeMonth(_, _)
DaysBeforeMonth(y, m) ==
    IF m = 0 THEN 0 ELSE DaysBeforeMonth(y, m - 1) + DaysInMonth(y, m - 1)

RECURSIVE DaysBeforeYear(_)
DaysBeforeYear(y) ==
    IF y <= EpochYear THEN 0 ELSE DaysBeforeYear(y - 1) + DaysInYear(y - 1)

\* new Date(year, month, date, hours, 0, 0, 0): a month past December runs
\* into the next year and a date past the end of the month into the next
\* month.
NewDate(y, m, d, h) ==
    (DaysBeforeYear(y + m \div 12) + DaysBeforeMonth(y + m \div 12, m % 12) + d - 1) * 24 + h

RECURSIVE YearFrom(_, _)
YearFrom(y, dn) ==
    IF dn < DaysInYear(y) THEN y ELSE YearFrom(y + 1, dn - DaysInYear(y))

RECURSIVE MonthFrom(_, _, _)
MonthFrom(y, m, dn) ==
    IF dn < DaysInMonth(y, m) THEN m ELSE MonthFrom(y, m + 1, dn - DaysInMonth(y, m))

\* Date.getFullYear, getMonth (0-based) and getDate of an instant.
getFullYear(t) == YearFrom(EpochYear, t \div 24)

getMonth(t) ==
    MonthFrom(getFullYear(t), 0, t \div 24 - DaysBeforeYear(getFullYear(t)))

getDate(t) ==
    t \div 24 - DaysBeforeYear(getFullYear(t))
        - DaysBeforeMonth(getFullYear(t), getMonth(t)) + 1

\* No file, and no material.
Missing == 0

\* The pair generateSelfSignedCert returns as the n-th of the run, made at
\* instant t: a key and a certificate valid for CertDays from then.
generateSelfSignedCert(n, t) ==
    [key |-> n, cert |-> [id |-> n, validTo |-> t + CertDays * 24]]

NoCert == [id |-> Missing, validTo |-> 0]

\* What writeFileSync can do in a run of rotateCertsNow or loadOrCreateCerts:
\* both writes succeed, the write of the key throws (its file is left as it
\* was), or the write of the certificate throws after the key was written.
Faults == {"none", "key", "cert"}

\* rotateCertsNow() on s = [disk, live, gen] at instant t: generate, write the
\* key, write the certificate, setSecureContext; the first write that throws
\* ends it (caught and logged).
rotateCertsNow(s, t, fault) ==
    LET p == generateSelfSignedCert(s.gen + 1, t)
    IN  IF fault = "key" THEN [s EXCEPT !.gen = p.key]
        ELSE IF fault = "cert"
        THEN [s EXCEPT !.gen = p.key, !.disk = [s.disk EXCEPT !.key = p.key]]
        ELSE [disk |-> p, live |-> [key |-> p.key, cert |-> p.cert.id], gen |-> p.key]

\* certExpiresBefore(msFromNow) for the certificate file c at instant t (with
\* crypto.X509Certificate available).
certExpiresBefore(c, t, fromNow) ==
    IF c.id = Missing THEN TRUE ELSE c.validTo < t + fromNow

\* next1stAtMidnight() at instant t.
next1stAtMidnight(t) ==
    LET year      == getFullYear(t)
        month     == getMonth(t)
        candidate == NewDate(year, month, 1, 0)
    IN  IF candidate <= t
        THEN (IF month + 1 > 11 THEN NewDate(year + 1, 0, 1, 0)
              ELSE NewDate(year, month + 1, 1, 0))
        ELSE NewDate(year, month, 1, 0)

\* setTimeout(f, delay), delay in hours: f runs no earlier than this long
\* after the call.  A delay over TIMEOUT_MAX ms, or under 1 ms, is set to 1 ms,
\* which is no time on this clock.
TimerDelay(delay) ==
    IF delay > TIMEOUT_MAX \div MsPerHour \/ delay < 1 THEN 0 ELSE delay

\* The timer scheduleMonthlyRotation() arms at instant t: when it is due, and
\* the instant next1stAtMidnight computed (kept for the record).
scheduleMonthlyRotation(t) ==
    [due    |-> t + TimerDelay(next1stAtMidnight(t) - t),
     target |-> next1stAtMidnight(t)]

\* A delivered message: recipient and payload.
Sent(c, m) == [to |-> c, msg |-> m]

IsOpen(c) == c # Null /\ readyState[c] = "OPEN"

PasscodeUpdated(p) ==
    [type |-> "passcodeUpdated", code |-> p.code, expiresAt |-> p.expiresAt, used |-> p.used]

RECURSIVE BroadcastFrom(_, _, _)
BroadcastFrom(c, p, rs) ==
    IF c > NumConns THEN <<>>
    ELSE (IF rs[c] = "OPEN" THEN <<Sent(c, PasscodeUpdated(p))>> ELSE <<>>)
             \o BroadcastFrom(c + 1, p, rs)

\* broadcastPasscode: passcodeUpdated to every client of the server that is
\* OPEN, given the passcode and the ready states at the time of the call.
broadcastPasscode(p, rs) == BroadcastFrom(1, p, rs)

\* The record generatePasscode assigns to currentPasscode for a drawn integer.
NewPasscode(r) ==
    [code |-> String(100000 + r), expiresAt |-> now + PASSCODE_EXPIRY_MS, used |-> FALSE]

\* Faulty variant of generatePasscode: the new passcode inherits the used
\* flag of the one it replaces.
generatePasscode_KeepsUsed(r, rs) ==
    [passcode |-> [NewPasscode(r) EXCEPT !.used = currentPasscode.used],
     sends |-> broadcastPasscode([NewPasscode(r) EXCEPT !.used = currentPasscode.used], rs)]

\* generatePasscode(): a new current passcode, broadcast to the open
\* connections (rs: the ready states when it runs).  Yields the new passcode
\* and the messages delivered.
generatePasscode(r, rs) ==
    [passcode |-> NewPasscode(r), sends |-> broadcastPasscode(NewPasscode(r), rs)]

\* ------------------------------------------------------------------ Init

\* The certificate side once the server listens, started at instant t with
\* a pair on disk that was made then: the pair is loaded, it is not about to
\* expire, and the monthly rotation is scheduled.
Serving(t) ==
    /\ clock = t
    /\ disk = generateSelfSignedCert(1, t)
    /\ live = [key |-> 1, cert |-> 1]
    /\ timers = {scheduleMonthlyRotation(t)}
    /\ gen = 1

\* No call of msUntilNextDayOfMonth or of the address test is under way.
NotCalled == day = 0 /\ ms = 0 /\ address = Undefined /\ verdict = FALSE

\* The launcher has not been used: no PID file, no process spawned.
NoLauncher == pidFile = 0 /\ procs = {} /\ spawned = 0

\* After the module has loaded: generatePasscode() has run once with no
\* connection attached and the interval timer is armed.
Init ==
    /\ running = TRUE
    /\ now = 0
    /\ timerDue = PASSCODE_EXPIRY_MS
    /\ hostSocket = Null
    /\ clientSocket = Null
    /\ \E r \in RandomInts : currentPasscode = NewPasscode(r)
    /\ readyState = [c \in Conns |-> "NONE"]
    /\ remoteAddress = [c \in Conns |-> Undefined]
    /\ admission = [c \in Conns |-> "none"]
    /\ spent = FALSE
    /\ ev = [op |-> "start"]
    /\ out = <<>>
    /\ Serving(NewDate(EpochYear, 0, 2, 0))
    /\ NotCalled
    /\ NoLauncher

\* --------------------------------------------------------------- actions

\* wss.on("connection"): a new connection takes a free handle and is sent the
\* current passcode.
Connect(c, addr) ==
    /\ running
    /\ readyState[c] \in {"NONE", "CLOSED"}
    /\ readyState' = [readyState EXCEPT ![c] = "OPEN"]
    /\ remoteAddress' = [remoteAddress EXCEPT ![c] = addr]
    /\ admission' = [admission EXCEPT ![c] = "none"]
    /\ out' = <<Sent(c, PasscodeUpdated(currentPasscode))>>
    /\ ev' = [op |-> "connection", conn |-> c]
    /\ UNCHANGED <<running, now, timerDue, hostSocket, clientSocket, currentPasscode, spent>>
    /\ UNCHANGED otherVars

\* The server's own messages.
StreamConflict == [type |-> "streamConflict", reason |-> "another client active"]

AuthFailed == [type |-> "authFailed", reason |-> "invalid_passcode"]

ClientAccepted == [type |-> "clientAccepted"]

RequestOffer == [type |-> "requestOffer"]

HostDisconnected == [type |-> "hostDisconnected"]

ClientDisconnected == [type |-> "clientDisconnected"]

\* History kept beside generatePasscode: the admissions under the passcode it
\* replaces become admissions under an old passcode.
Superseded(adm) == [c \in Conns |-> IF adm[c] = "current" THEN "old" ELSE adm[c]]

\* Connections admitted under the current passcode.
usedBy == {c \in Conns : admission[c] = "current"}

\* ws.send(m) inside try/catch on the handler's own socket: delivered only
\* while that socket is OPEN.
Reply(c, m) == IF readyState[c] = "OPEN" THEN <<Sent(c, m)>> ELSE <<>>

\* X.send(m) guarded by X && X.readyState === X.OPEN.
SendIfOpen(x, m) == IF IsOpen(x) THEN <<Sent(x, m)>> ELSE <<>>

\* Faulty variant of ClientSlotBusy: the single-client test is skipped.
ClientSlotBusy_Skipped == FALSE

\* The single-client test: clientSocket && clientSocket.readyState === OPEN.
ClientSlotBusy == IsOpen(clientSocket)

\* Faulty variant of PasscodeMatches: every passcode passes.
PasscodeMatches_Any(provided) == TRUE

\* The passcode test, negated: currentPasscode && provided === currentPasscode.code.
PasscodeMatches(provided) == provided = currentPasscode.code

\* Faulty variant of HostBranch: the address test is missing.
HostBranch_Unchecked(c) ==
    /\ hostSocket' = c
    /\ out' = SendIfOpen(clientSocket, RequestOffer)
    /\ UNCHANGED <<running, clientSocket, currentPasscode, readyState, admission, spent>>

\* The host branch of the message handler.
HostBranch(c) ==
    IF ~IsLocal(remoteAddress[c])
    THEN \* ws.close(): an OPEN socket starts closing, nothing is sent
         /\ readyState' = [readyState EXCEPT ![c] = "CLOSING"]
         /\ out' = <<>>
         /\ UNCHANGED <<running, hostSocket, clientSocket, currentPasscode, admission, spent>>
    ELSE /\ hostSocket' = c
         /\ out' = SendIfOpen(clientSocket, RequestOffer)
         /\ UNCHANGED <<running, clientSocket, currentPasscode, readyState, admission, spent>>

\* The client branch of the message handler.
ClientBranch(c, data) ==
    IF ClientSlotBusy
    THEN /\ out' = Reply(c, StreamConflict)
         /\ UNCHANGED <<running, hostSocket, clientSocket, currentPasscode, readyState, admission, spent>>
    ELSE IF ~PasscodeMatches(Provided(data))
    THEN /\ out' = Reply(c, AuthFailed)
         /\ UNCHANGED <<running, hostSocket, clientSocket, currentPasscode, readyState, admission, spent>>
    ELSE /\ clientSocket' = c
         /\ currentPasscode' = [currentPasscode EXCEPT !.used = TRUE]
         /\ admission' = [admission EXCEPT ![c] = "current"]
         /\ out' = broadcastPasscode(currentPasscode', readyState)
                      \o Reply(c, ClientAccepted)
                      \o SendIfOpen(hostSocket, RequestOffer)
         /\ UNCHANGED <<running, hostSocket, readyState, spent>>

\* The socket the relay part of the handler forwards data to, Null when it
\* forwards to none: the offer, answer and candidate tests in order, then the
\* generic forward by data.to.
RelayTarget(data) ==
    IF TypeIs(data, "offer") /\ IsOpen(hostSocket) THEN hostSocket
    ELSE IF TypeIs(data, "answer") /\ IsOpen(clientSocket) THEN clientSocket
    ELSE IF TypeIs(data, "candidate")
    THEN (IF ToIs(data, "host") /\ IsOpen(hostSocket) THEN hostSocket
          ELSE IF ToIs(data, "client") /\ IsOpen(clientSocket) THEN clientSocket
          ELSE Null)
    ELSE IF ToIs(data, "host") /\ IsOpen(hostSocket) THEN hostSocket
    ELSE IF ToIs(data, "client") /\ IsOpen(clientSocket) THEN clientSocket
    ELSE Null

\* Faulty variant of RelayBranch: a frame of type bye also empties the client
\* slot.
RelayBranch_ByeUnregisters(data) ==
    /\ out' = (IF RelayTarget(data) # Null THEN <<Sent(RelayTarget(data), data)>> ELSE <<>>)
    /\ clientSocket' = (IF TypeIs(data, "bye") THEN Null ELSE clientSocket)
    /\ UNCHANGED <<running, hostSocket, currentPasscode, readyState, admission, spent>>

\* The signaling relay: JSON.stringify(data) to the target, if any.
RelayBranch(data) ==
    /\ out' = (IF RelayTarget(data) # Null THEN <<Sent(RelayTarget(data), data)>> ELSE <<>>)
    /\ UNCHANGED <<running, hostSocket, clientSocket, currentPasscode, readyState, admission, spent>>

\* ws.on("message"): one inbound frame of connection c.  Frames can still
\* arrive while the socket is CLOSING.
OnMessage(c, frame) ==
    /\ running
    /\ readyState[c] \in {"OPEN", "CLOSING"}
    /\ ev' = [op |-> "message", conn |-> c, frame |-> frame]
    /\ UNCHANGED <<now, timerDue, remoteAddress>>
    /\ UNCHANGED otherVars
    /\ CASE frame.json = "invalid" ->
               \* JSON.parse throws: logged, return
               /\ out' = <<>>
               /\ UNCHANGED <<running, hostSocket, clientSocket, currentPasscode,
                              readyState, admission, spent>>
         [] frame.json = "null" ->
               \* data.type of null throws a TypeError nothing catches
               /\ running' = FALSE
               /\ out' = <<>>
               /\ UNCHANGED <<hostSocket, clientSocket, currentPasscode, readyState, admission, spent>>
         [] frame.json = "object" /\ frame.type = "host" -> HostBranch(c)
         [] frame.json = "object" /\ frame.type = "client" -> ClientBranch(c, frame)
         [] OTHER -> RelayBranch(frame)

\* The peer starts to go away (its close frame arrived, or its socket closed
\* with data still buffered): the socket is CLOSING until its close event,
\* and a destroyed socket has no remoteAddress.
PeerClose(c) ==
    /\ running
    /\ readyState[c] = "OPEN"
    /\ readyState' = [readyState EXCEPT ![c] = "CLOSING"]
    /\ remoteAddress' = [remoteAddress EXCEPT ![c] = Undefined]
    /\ ev' = [op |-> "closing", conn |-> c]
    /\ out' = <<>>
    /\ UNCHANGED <<running, now, timerDue, hostSocket, clientSocket, currentPasscode, admission, spent>>
    /\ UNCHANGED otherVars

\* ws.on("close"): the close event of connection c (its readyState is CLOSED
\* when the handler runs, and its socket is destroyed).
OnClose(c) ==
    /\ running
    /\ readyState[c] \in {"OPEN", "CLOSING"}
    /\ LET rs    == [readyState EXCEPT ![c] = "CLOSED"]
           host1 == IF c = hostSocket THEN Null ELSE hostSocket
           s1    == IF c = hostSocket /\ clientSocket # Null /\ rs[clientSocket] = "OPEN"
                    THEN <<Sent(clientSocket, HostDisconnected)>> ELSE <<>>
       IN  /\ readyState' = rs
           /\ hostSocket' = host1
           /\ IF c = clientSocket
              THEN \E r \in RandomInts :
                     /\ clientSocket' = Null
                     /\ currentPasscode' = generatePasscode(r, rs).passcode
                     /\ admission' = Superseded(admission)
                     /\ spent' = FALSE
                     /\ out' = s1
                          \o (IF host1 # Null /\ rs[host1] = "OPEN"
                              THEN <<Sent(host1, ClientDisconnected)>> ELSE <<>>)
                          \o generatePasscode(r, rs).sends
              ELSE /\ out' = s1
                   /\ spent' = (spent \/ admission[c] = "current")
                   /\ UNCHANGED <<clientSocket, currentPasscode, admission>>
    /\ remoteAddress' = [remoteAddress EXCEPT ![c] = Undefined]
    /\ ev' = [op |-> "close", conn |-> c]
    /\ UNCHANGED <<running, now, timerDue>>
    /\ UNCHANGED otherVars

\* The setInterval callback: generatePasscode() once the timer is due; the
\* next run is due one period after this one started.
PasscodeTimer ==
    /\ running
    /\ now >= timerDue
    /\ \E r \in RandomInts :
         /\ currentPasscode' = generatePasscode(r, readyState).passcode
         /\ out' = generatePasscode(r, readyState).sends
    /\ timerDue' = now + PASSCODE_EXPIRY_MS
    /\ admission' = Superseded(admission)
    /\ spent' = FALSE
    /\ ev' = [op |-> "timer"]
    /\ UNCHANGED <<running, now, hostSocket, clientSocket, readyState, remoteAddress>>
    /\ UNCHANGED otherVars

\* Time passes.  A due timer can be late by any amount (a busy or suspended
\* process), so the clock is free to pass timerDue.
Tick ==
    /\ running
    /\ now < MaxTicks * TickMs
    /\ now' = now + TickMs
    /\ ev' = [op |-> "tick"]
    /\ out' = <<>>
    /\ UNCHANGED <<running, timerDue, hostSocket, clientSocket, currentPasscode,
                   readyState, remoteAddress, admission, spent>>
    /\ UNCHANGED otherVars

Next ==
    \/ \E c \in Conns, addr \in RemoteAddrs : Connect(c, addr)
    \/ \E c \in Conns, frame \in Frames : OnMessage(c, frame)
    \/ \E c \in Conns : PeerClose(c)
    \/ \E c \in Conns : OnClose(c)
    \/ PasscodeTimer
    \/ Tick

Spec == Init /\ [][Next]_vars

\* ------------------------------------------- certificate life cycle

\* The relay's variables that the certificate code and the command handlers
\* never refer to.
slotVars == <<now, timerDue, hostSocket, clientSocket, currentPasscode,
              readyState, remoteAddress, admission, spent>>

allVars == <<vars, otherVars>>

\* Instants at which the process is started: 1 January 00:00, 7 January 00:00
\* and 13:00, 20 January, 10 February and 20 December of the epoch year.
StartInstants ==
    {NewDate(EpochYear, 0, 1, 0), NewDate(EpochYear, 0, 7, 0), NewDate(EpochYear, 0, 7, 13),
     NewDate(EpochYear, 0, 20, 0), NewDate(EpochYear, 1, 10, 0), NewDate(EpochYear, 11, 20, 0)}

\* Days from the start to the expiry of a certificate found on disk.
ExpiryDays == {-1, 3, 6, 60, 151}

\* Commands a line of stdin or a control connection can carry, after
\* trim().toLowerCase(); "status" stands for every other text.
Commands == {"regen", "exit", "status"}

\* The relay of a process that is not running.
RelayDown ==
    /\ running = FALSE
    /\ now = 0
    /\ timerDue = PASSCODE_EXPIRY_MS
    /\ hostSocket = Null
    /\ clientSocket = Null
    /\ currentPasscode = NewPasscode(0)
    /\ readyState = [c \in Conns |-> "NONE"]
    /\ remoteAddress = [c \in Conns |-> Undefined]
    /\ admission = [c \in Conns |-> "none"]
    /\ spent = FALSE
    /\ out = <<>>

\* Before the process is started: the cert directory is empty or holds a pair.
CertInit ==
    /\ RelayDown
    /\ ev = [op |-> "boot"]
    /\ \E t \in StartInstants :
         /\ clock = t
         /\ \/ disk = [key |-> Missing, cert |-> NoCert] /\ gen = 0
            \/ \E d \in ExpiryDays :
                 /\ disk = [key |-> 1, cert |-> [id |-> 1, validTo |-> t + d * 24]]
                 /\ gen = 1
    /\ live = [key |-> Missing, cert |-> Missing]
    /\ timers = {}
    /\ NotCalled
    /\ NoLauncher

\* loadOrCreateCerts() on s = [disk, gen] at instant t: the pair on disk when
\* both files exist, else a generated pair written to disk.  Its writes are
\* in no try block: ok is FALSE when one throws.
loadOrCreateCerts(s, t, fault) ==
    LET p == generateSelfSignedCert(s.gen + 1, t)
    IN  IF s.disk.key # Missing /\ s.disk.cert.id # Missing
        THEN [ok |-> TRUE, fromFile |-> TRUE, disk |-> s.disk, gen |-> s.gen,
              initial |-> [key |-> s.disk.key, cert |-> s.disk.cert.id]]
        ELSE IF fault = "key"
        THEN [ok |-> FALSE, fromFile |-> FALSE, disk |-> s.disk, gen |-> p.key,
              initial |-> [key |-> Missing, cert |-> Missing]]
        ELSE IF fault = "cert"
        THEN [ok |-> FALSE, fromFile |-> FALSE, disk |-> [s.disk EXCEPT !.key = p.key],
              gen |-> p.key, initial |-> [key |-> Missing, cert |-> Missing]]
        ELSE [ok |-> TRUE, fromFile |-> FALSE, disk |-> p, gen |-> p.key,
              initial |-> [key |-> p.key, cert |-> p.cert.id]]

\* The module body from loadOrCreateCerts() to httpsServer.listen(), one
\* synchronous run: load or create the pair, create the server with it, rotate
\* if certExpiresBefore(FIVE_MONTHS_MS), schedule the monthly rotation, listen.
Startup(f0, f1) ==
    /\ ~running
    /\ ev.op = "boot"
    /\ LET l  == loadOrCreateCerts([disk |-> disk, gen |-> gen], clock, f0)
           s0 == [disk |-> l.disk, live |-> l.initial, gen |-> l.gen]
           expiring == certExpiresBefore(s0.disk.cert, clock, FIVE_MONTHS)
           s1 == IF expiring THEN rotateCertsNow(s0, clock, f1) ELSE s0
       IN  IF ~l.ok
           THEN \* a write threw: the process ends before it serves
                /\ disk' = l.disk
                /\ gen' = l.gen
                /\ ev' = [op |-> "startup", listening |-> FALSE]
                /\ UNCHANGED <<running, live, timers>>
           ELSE /\ disk' = s1.disk
                /\ live' = s1.live
                /\ gen' = s1.gen
                /\ timers' = {scheduleMonthlyRotation(clock)}
                /\ running' = TRUE
                /\ ev' = [op |-> "startup", listening |-> TRUE, at |-> clock,
                          found |-> disk.cert, created |-> ~l.fromFile,
                          rotated |-> expiring]
    /\ out' = <<>>
    /\ UNCHANGED <<clock, slotVars, day, ms, address, verdict, launcherVars>>

\* Faulty variant of RotationTimer: a rotation that failed schedules no next
\* rotation.
RotationTimer_StopsOnFailure(t, fault) ==
    /\ running
    /\ t \in timers
    /\ clock >= t.due
    /\ gen < MaxGen
    /\ LET s1 == rotateCertsNow([disk |-> disk, live |-> live, gen |-> gen], clock, fault)
       IN  disk' = s1.disk /\ live' = s1.live /\ gen' = s1.gen
    /\ timers' = (timers \ {t})
                    \cup (IF fault = "none" THEN {scheduleMonthlyRotation(clock)} ELSE {})
    /\ ev' = [op |-> "rotation", target |-> t.target, fault |-> fault]
    /\ out' = <<>>
    /\ UNCHANGED <<running, clock, slotVars, day, ms, address, verdict, launcherVars>>

\* The setTimeout callback of scheduleMonthlyRotation: rotateCertsNow(), then
\* scheduleMonthlyRotation() again.
RotationTimer(t, fault) ==
    /\ running
    /\ t \in timers
    /\ clock >= t.due
    /\ gen < MaxGen
    /\ LET s1 == rotateCertsNow([disk |-> disk, live |-> live, gen |-> gen], clock, fault)
       IN  disk' = s1.disk /\ live' = s1.live /\ gen' = s1.gen
    /\ timers' = (timers \ {t}) \cup {scheduleMonthlyRotation(clock)}
    /\ ev' = [op |-> "rotation", target |-> t.target, fault |-> fault]
    /\ out' = <<>>
    /\ UNCHANGED <<running, clock, slotVars, day, ms, address, verdict, launcherVars>>

\* process.stdin.on("data"): regen rotates, exit ends the process, anything
\* else is logged as unknown.
StdinCommand(cmd, fault) ==
    /\ running
    /\ IF cmd = "regen"
       THEN /\ gen < MaxGen
            /\ LET s1 == rotateCertsNow([disk |-> disk, live |-> live, gen |-> gen], clock, fault)
               IN  disk' = s1.disk /\ live' = s1.live /\ gen' = s1.gen
            /\ UNCHANGED running
       ELSE /\ running' = (cmd # "exit")
            /\ UNCHANGED <<disk, live, gen>>
    /\ ev' = [op |-> "stdin", cmd |-> cmd, fault |-> IF cmd = "regen" THEN fault ELSE "none"]
    /\ out' = <<>>
    /\ UNCHANGED <<clock, timers, slotVars, day, ms, address, verdict, launcherVars>>

\* What the peer of a control connection reads back.  process.exit(0) runs in
\* the same turn as socket.end("bye\n"): the text reaches the peer if the
\* write went out at once, and is lost with the process if it was queued.
Replies(cmd) ==
    IF cmd = "exit" THEN {<<"bye">>, <<>>}
    ELSE IF cmd = "regen" THEN {<<"ok">>}
    ELSE {<<"unknown">>}

\* The control server's socket.on("data"): one command of a control
\* connection.
ControlCommand(cmd, fault) ==
    /\ running
    /\ IF cmd = "regen"
       THEN /\ gen < MaxGen
            /\ LET s1 == rotateCertsNow([disk |-> disk, live |-> live, gen |-> gen], clock, fault)
               IN  disk' = s1.disk /\ live' = s1.live /\ gen' = s1.gen
            /\ UNCHANGED running
       ELSE /\ running' = (cmd # "exit")
            /\ UNCHANGED <<disk, live, gen>>
    /\ \E r \in Replies(cmd) :
         ev' = [op |-> "control", cmd |-> cmd, reply |-> r,
                fault |-> IF cmd = "regen" THEN fault ELSE "none"]
    /\ out' = <<>>
    /\ UNCHANGED <<clock, timers, slotVars, day, ms, address, verdict, launcherVars>>

\* A day passes, up to the instant the pending timer was computed for.
CalTick ==
    /\ running
    /\ \E t \in timers : clock < t.target
    /\ clock' = clock + 24
    /\ ev' = [op |-> "day"]
    /\ out' = <<>>
    /\ UNCHANGED <<running, disk, live, timers, gen, slotVars, day, ms, address, verdict, launcherVars>>

CertNext ==
    \/ \E f0 \in Faults, f1 \in Faults : Startup(f0, f1)
    \/ \E t \in timers, fault \in Faults : RotationTimer(t, fault)
    \/ \E cmd \in Commands, fault \in Faults : StdinCommand(cmd, fault)
    \/ \E cmd \in Commands, fault \in Faults : ControlCommand(cmd, fault)
    \/ CalTick

\* The certificate life cycle and the command handlers of one process.
CertSpec == CertInit /\ [][CertNext]_allVars

\* ------------------------------------------------ msUntilNextDayOfMonth

\* No certificate material and no timer.
CertDown ==
    /\ disk = [key |-> Missing, cert |-> NoCert]
    /\ live = [key |-> Missing, cert |-> Missing]
    /\ timers = {}
    /\ gen = 0

\* The days of the month msUntilNextDayOfMonth is asked for.
Days == 1..31

\* Instants at which msUntilNextDayOfMonth is called: 01:00, 02:00 (the hour
\* of the target itself) and 03:00 on the first and the last days of every
\* month of two years.
CallInstants ==
    {NewDate(y, m, d, h) :
        y \in {EpochYear, EpochYear + 1}, m \in 0..11, d \in {1, 27, 28}, h \in {1, 2, 3}}
      \cup {NewDate(y, m, DaysInMonth(y, m), h) :
              y \in {EpochYear, EpochYear + 1}, m \in 0..11, h \in {1, 2, 3}}

RECURSIVE NextWithDate(_, _, _, _)
\* The while loop of msUntilNextDayOfMonth, entered with month m (1-based) of
\* year y: the time from t to 02:00 on day d of the first month that has a
\* day d.
NextWithDate(y, m, d, t) ==
    LET candidate == NewDate(y, m - 1, d, 2)
    IN  IF getDate(candidate) = d THEN candidate - t
        ELSE IF m + 1 > 12 THEN NextWithDate(y + 1, 1, d, t)
        ELSE NextWithDate(y, m + 1, d, t)

\* Faulty variant of msUntilNextDayOfMonth: a target that is exactly now
\* counts as still ahead.
msUntilNextDayOfMonth_AtOrAfter(d, t) ==
    LET thisMonthTarget == NewDate(getFullYear(t), getMonth(t), d, 2)
        next            == NewDate(getFullYear(t), getMonth(t) + 1, d, 2)
    IN  IF getMonth(thisMonthTarget) # getMonth(t) THEN next - t
        ELSE IF thisMonthTarget >= t THEN thisMonthTarget - t
        ELSE IF getDate(next) # d
        THEN NextWithDate(getFullYear(t), getMonth(t) + 2, d, t)
        ELSE next - t

\* msUntilNextDayOfMonth(day) called at instant t, in hours.
msUntilNextDayOfMonth(d, t) ==
    LET thisMonthTarget == NewDate(getFullYear(t), getMonth(t), d, 2)
        next            == NewDate(getFullYear(t), getMonth(t) + 1, d, 2)
    IN  IF getMonth(thisMonthTarget) # getMonth(t) THEN next - t
        ELSE IF thisMonthTarget > t THEN thisMonthTarget - t
        ELSE IF getDate(next) # d
        THEN NextWithDate(getFullYear(t), getMonth(t) + 2, d, t)
        ELSE next - t

DateInit ==
    /\ RelayDown
    /\ CertDown
    /\ NoLauncher
    /\ ev = [op |-> "call"]
    /\ clock \in CallInstants
    /\ day \in Days
    /\ ms = 0
    /\ address = Undefined
    /\ verdict = FALSE

\* scheduleNext: const ms = msUntilNextDayOfMonth(dayOfMonth).
CallMsUntilNextDayOfMonth ==
    /\ ev.op = "call"
    /\ ms' = msUntilNextDayOfMonth(day, clock)
    /\ ev' = [op |-> "msUntilNextDayOfMonth"]
    /\ UNCHANGED <<running, slotVars, out, certVars, day, address, verdict, launcherVars>>

DateNext == CallMsUntilNextDayOfMonth

\* msUntilNextDayOfMonth over call instants and days of the month.
DateSpec == DateInit /\ [][DateNext]_allVars

\* --------------------------------------------------------- address test

\* Textual addresses without prefix and zone: bound ones, others, and none.
Bases == {"127.0.0.1", "::1", "192.168.1.10", "192.168.1.77", "203.0.113.5",
          "10.0.0.5", "fe80::1", "fe80::2", ""}

\* What follows the address: nothing, a zone, or a bare '%'.
Zones == {<<>>, <<"%", "eth0">>, <<"%">>}

\* The remote address as the socket reports it, from its parts.
RemoteAddress(mapped, base, zone) ==
    (IF mapped THEN <<"::ffff:">> ELSE <<>>)
        \o (IF base = "" THEN <<>> ELSE <<base>>) \o zone

AddrInit ==
    /\ RelayDown
    /\ CertDown
    /\ NoLauncher
    /\ clock = 0
    /\ day = 0
    /\ ms = 0
    /\ verdict = FALSE
    /\ \/ ev = [op |-> "call", absent |-> TRUE] /\ address = Undefined
       \/ \E mapped \in BOOLEAN, base \in Bases, zone \in Zones :
            /\ ev = [op |-> "call", absent |-> FALSE,
                     mapped |-> mapped, base |-> base, zone |-> zone]
            /\ address = RemoteAddress(mapped, base, zone)

\* The address test of the host registration: normalizeAddr, then membership
\* in getLocalAddresses().
CallIsLocal ==
    /\ ev.op = "call"
    /\ verdict' = IsLocal(address)
    /\ ev' = [ev EXCEPT !.op = "isLocal"]
    /\ UNCHANGED <<running, slotVars, out, certVars, day, ms, address, launcherVars>>

AddrNext == CallIsLocal

\* The address test over remote addresses.
AddrSpec == AddrInit /\ [][AddrNext]_allVars

\* ---------------------------------------------------------- launcher

\* process.argv[2] of the launcher, lower-cased; "help" stands for every
\* other argument and for none.
LauncherCommands == {"start", "exit", "stop", "regen", "status", "help"}

\* isRunning(pid): process.kill(pid, 0) does not throw.
isRunning(pid) == pid \in procs

\* readPid(): the pid in PID_FILE, null (Null) when the file is absent.
readPid == IF pidFile = Missing THEN Null ELSE pidFile

\* The control exchange of sendControl(command) as it stands when
\* sendControl returns: the connection has been asked for and the three
\* listeners are registered, but a listener runs only in a later turn of the
\* event loop, so nothing is written, printed or reported yet.
sendControl(command) ==
    [command |-> command, written |-> FALSE, printed |-> <<>>, reported |-> FALSE]

\* What a run of the launcher leaves behind when process.exit ends it.
Ran(cmd, printed, x) ==
    [op |-> "launcher", cmd |-> cmd, printed |-> printed \o x.printed,
     written |-> x.written, reported |-> x.reported]

\* A run that has no control exchange.
NoExchange == [written |-> FALSE, printed |-> <<>>, reported |-> FALSE]

\* untamed exit / untamed stop: sendControl("exit"), removePid() if the file
\* holds a pid, process.exit(0), all in the first turn of the event loop.
StopCommand(cmd) ==
    /\ ev' = Ran(cmd, <<>>, sendControl("exit"))
    /\ pidFile' = (IF readPid # Null THEN Missing ELSE pidFile)
    /\ UNCHANGED <<procs, spawned>>

\* untamed regen: sendControl("regen"), process.exit(0).
RegenCommand ==
    /\ ev' = Ran("regen", <<>>, sendControl("regen"))
    /\ UNCHANGED <<pidFile, procs, spawned>>

\* untamed start: nothing to do when the PID file names a live process, else
\* the server is spawned detached and its pid written.
StartCommand ==
    IF readPid # Null /\ isRunning(readPid)
    THEN /\ ev' = Ran("start", <<"already running">>, NoExchange)
         /\ UNCHANGED <<pidFile, procs, spawned>>
    ELSE /\ spawned < MaxPid
         /\ spawned' = spawned + 1
         /\ procs' = procs \cup {spawned + 1}
         /\ pidFile' = spawned + 1
         /\ ev' = Ran("start", <<"started">>, NoExchange)

\* untamed status: reports by the PID file and removes a stale one.
StatusCommand ==
    IF readPid = Null
    THEN /\ ev' = Ran("status", <<"not running">>, NoExchange)
         /\ UNCHANGED <<pidFile, procs, spawned>>
    ELSE IF isRunning(readPid)
    THEN /\ ev' = Ran("status", <<"running">>, NoExchange)
         /\ UNCHANGED <<pidFile, procs, spawned>>
    ELSE /\ ev' = Ran("status", <<"stale PID file">>, NoExchange)
         /\ pidFile' = Missing
         /\ UNCHANGED <<procs, spawned>>

\* One run of the launcher, from its first statement to its process.exit.
Launch(cmd) ==
    /\ CASE cmd = "start" -> StartCommand
         [] cmd \in {"exit", "stop"} -> StopCommand(cmd)
         [] cmd = "regen" -> RegenCommand
         [] cmd = "status" -> StatusCommand
         [] OTHER -> /\ ev' = Ran(cmd, <<"usage">>, NoExchange)
                     /\ UNCHANGED <<pidFile, procs, spawned>>
    /\ UNCHANGED <<running, slotVars, out, certVars, day, ms, address, verdict>>

\* A spawned server process ends (an exit command on its own stdin, an
\* uncaught exception, a signal).
ServerExits(p) ==
    /\ p \in procs
    /\ procs' = procs \ {p}
    /\ ev' = [op |-> "serverExit", pid |-> p]
    /\ UNCHANGED <<pidFile, spawned>>
    /\ UNCHANGED <<running, slotVars, out, certVars, day, ms, address, verdict>>

LauncherInit ==
    /\ RelayDown
    /\ CertDown
    /\ clock = 0
    /\ NotCalled
    /\ NoLauncher
    /\ ev = [op |-> "shell"]

LauncherNext ==
    \/ \E cmd \in LauncherCommands : Launch(cmd)
    \/ \E p \in 1..MaxPid : ServerExits(p)

\* Runs of the launcher, one after the other, and the servers they spawn.
LauncherSpec == LauncherInit /\ [][LauncherNext]_allVars

\* ------------------------------------------------------ whole server

\* Every handler of the serving process: the relay's, the rotation timer and
\* the command handlers, with a disk that takes every write.
ServerNext ==
    \/ Next
    \/ \E t \in timers : RotationTimer(t, "none")
    \/ \E cmd \in Commands : StdinCommand(cmd, "none")
    \/ \E cmd \in Commands : ControlCommand(cmd, "none")

ServerSpec == Init /\ [][ServerNext]_allVars

\* ---------------------------------------------------------------- claims

\* The messages of a sequence of deliveries.
Range(q) == {q[i] : i \in DOMAIN q}

\* The last event was frame handling of a client registration.
ClientRegistered(e) == e.op = "message" /\ TypeIs(e.frame, "client")

C2_WrongCodeAlwaysAuthFailed ==
    [][\A c \in Conns :
         ( /\ ClientRegistered(ev') /\ ev'.conn = c
           /\ readyState[c] = "OPEN"
           /\ Provided(ev'.frame) # currentPasscode.code )
         => /\ clientSocket' = clientSocket
            /\ currentPasscode' = currentPasscode
            /\ out' = <<Sent(c, AuthFailed)>>]_vars

\* C2 amended: such a registration never changes the client slot or the
\* passcode; it is answered authFailed when the client slot has no OPEN
\* occupant and streamConflict when it has one.
C2_WrongCodeRejected ==
    [][\A c \in Conns :
         ( /\ ClientRegistered(ev') /\ ev'.conn = c
           /\ readyState[c] = "OPEN"
           /\ Provided(ev'.frame) # currentPasscode.code )
         => /\ clientSocket' = clientSocket
            /\ currentPasscode' = currentPasscode
            /\ out' = <<Sent(c, IF IsOpen(clientSocket) THEN StreamConflict
                                ELSE AuthFailed)>>]_vars

\* C2 witness: a registration with a code that is not the current one has
\* just been answered authFailed.
C2_Witness ==
    /\ ClientRegistered(ev)
    /\ Provided(ev.frame) \in Codes
    /\ Provided(ev.frame) # currentPasscode.code
    /\ clientSocket = Null
    /\ out = <<Sent(ev.conn, AuthFailed)>>

\* The last event admitted its (open) sender as client.
JustAdmitted ==
    ClientRegistered(ev) /\ Sent(ev.conn, ClientAccepted) \in Range(out)

\* C3: a client registration is admitted only while the current passcode is
\* unexpired; the current code presented later than expiresAt is rejected.
C3_AdmissionOnlyUnexpired ==
    JustAdmitted => now <= currentPasscode.expiresAt

\* C4: the passcode is single-use; once a connection admitted with it has
\* disconnected (its close event handled), the same passcode admits no other
\* connection.
C4_SingleUse ==
    JustAdmitted => ~spent

\* C5 as stated: while the client slot holds a connection whose close event
\* has not been handled, a client registration from another (open) connection
\* is answered streamConflict and changes neither the slot nor the passcode.
C5_OccupiedSlotNeverDisplaced ==
    [][\A d \in Conns :
         ( /\ ClientRegistered(ev') /\ ev'.conn = d
           /\ readyState[d] = "OPEN"
           /\ clientSocket # Null /\ clientSocket # d )
         => /\ out' = <<Sent(d, StreamConflict)>>
            /\ clientSocket' = clientSocket
            /\ currentPasscode' = currentPasscode]_vars

\* C5 amended: while the client slot holds a connection that is OPEN, a client
\* registration from another (open) connection is answered streamConflict and
\* changes neither the slot nor the passcode.
C5_OpenClientNeverDisplaced ==
    [][\A d \in Conns :
         ( /\ ClientRegistered(ev') /\ ev'.conn = d
           /\ readyState[d] = "OPEN"
           /\ IsOpen(clientSocket) /\ clientSocket # d )
         => /\ out' = <<Sent(d, StreamConflict)>>
            /\ clientSocket' = clientSocket
            /\ currentPasscode' = currentPasscode]_vars

\* C5 witness: a registration without the current code has just been
\* answered streamConflict while another, open connection holds the slot.
C5_Witness ==
    /\ ClientRegistered(ev)
    /\ Provided(ev.frame) # currentPasscode.code
    /\ IsOpen(clientSocket) /\ clientSocket # ev.conn
    /\ readyState[ev.conn] = "OPEN"
    /\ out = <<Sent(ev.conn, StreamConflict)>>

\* C6: no connection is in the host slot and in the client slot at once.
C6_OneSlotPerConnection ==
    ~(hostSocket # Null /\ hostSocket = clientSocket)

\* C7: handling the close of the client-slot occupant issues a passcode whose
\* code differs from the previous code, with used = false, and broadcasts it
\* to every connection still open.
C7_CloseIssuesDistinctCode ==
    [][\A c \in Conns :
         (ev'.op = "close" /\ ev'.conn = c /\ clientSocket = c)
         => /\ currentPasscode'.code # currentPasscode.code
            /\ currentPasscode'.used = FALSE
            /\ \A d \in Conns :
                 readyState'[d] = "OPEN"
                    => Sent(d, PasscodeUpdated(currentPasscode')) \in Range(out')]_vars

\* C8: a host registration from a connection whose address fails the local
\* test closes that connection, sends nothing and changes neither slot nor
\* the passcode; and the host slot changes only to a connection that has just
\* sent a host registration and passed the local test.
C8_HostOnlyFromLocal ==
    [][/\ \A c \in Conns :
            ( /\ ev'.op = "message" /\ ev'.conn = c /\ TypeIs(ev'.frame, "host")
              /\ ~IsLocal(remoteAddress[c]) )
            => /\ readyState'[c] = "CLOSING"
               /\ out' = <<>>
               /\ hostSocket' = hostSocket
               /\ clientSocket' = clientSocket
               /\ currentPasscode' = currentPasscode
       /\ (hostSocket' # hostSocket /\ hostSocket' # Null)
            => /\ ev'.op = "message" /\ ev'.conn = hostSocket'
               /\ TypeIs(ev'.frame, "host")
               /\ IsLocal(remoteAddress[hostSocket'])]_vars

\* C8 witness: an open connection from another machine has just sent a host
\* registration; it is closing, got nothing, and the host slot is empty.
C8_Witness ==
    /\ ev.op = "message" /\ TypeIs(ev.frame, "host")
    /\ remoteAddress[ev.conn] = <<"::ffff:", "192.168.1.77">>
    /\ readyState[ev.conn] = "CLOSING"
    /\ hostSocket = Null
    /\ out = <<>>

\* The last event was the relay of a frame of type t.
Relayed(t) == ev.op = "message" /\ TypeIs(ev.frame, t)

\* C9: an offer reaches the host-slot occupant and no one else, an answer the
\* client-slot occupant and no one else, a candidate the slot its `to` names and
\* no one else; with that slot empty the frame reaches no connection.
C9_RelayOnlyToItsSlot ==
    /\ Relayed("offer") =>
          out = (IF hostSocket = Null THEN <<>> ELSE SendIfOpen(hostSocket, ev.frame))
    /\ Relayed("answer") =>
          out = (IF clientSocket = Null THEN <<>> ELSE SendIfOpen(clientSocket, ev.frame))
    /\ Relayed("candidate") =>
          out = (IF ToIs(ev.frame, "host") THEN SendIfOpen(hostSocket, ev.frame)
                 ELSE IF ToIs(ev.frame, "client") THEN SendIfOpen(clientSocket, ev.frame)
                 ELSE <<>>)

\* C10: an offer is forwarded to the host only when a client is registered in
\* the client slot at that moment.
C10_OfferNeedsClient ==
    (Relayed("offer") /\ hostSocket # Null /\ Sent(hostSocket, ev.frame) \in Range(out))
        => clientSocket # Null

\* The last event handled a frame that is not a message envelope: text that
\* is not JSON, or JSON that is not an object.
MalformedHandled == ev.op = "message" /\ ev.frame.json # "object"

\* C11: a frame that is not a well-formed envelope is dropped: nothing is
\* delivered to any connection, the sender is still open and the process is
\* still running.
C11_MalformedDropped ==
    MalformedHandled => /\ running
                        /\ out = <<>>
                        /\ readyState[ev.conn] \in {"OPEN", "CLOSING"}

\* C12: a used passcode does not outlive the session that used it: once a
\* connection admitted under the current passcode has had its close event
\* handled, the current passcode is no longer that used passcode.
C12_UsedCodeGoneAfterClose ==
    ~(spent /\ currentPasscode.used)

\* The last event was a start of the process that got as far as listening.
Started == ev.op = "startup" /\ ev.listening

\* C13: a start regenerates the certificate material, before it listens,
\* exactly when the material is missing or expires within the safety window
\* of 5 to 7 days: always when less than 5 days are left (3 days), never when
\* more than 7 are (60 days).
C13_StartupRegeneratesInWindow ==
    Started =>
      /\ (ev.found.id = Missing \/ ev.found.validTo - ev.at < 5 * 24)
            => (ev.created \/ ev.rotated)
      /\ (ev.found.id # Missing /\ ev.found.validTo - ev.at > 7 * 24)
            => ~(ev.created \/ ev.rotated)

\* C14: a rotation in which a write to disk fails leaves the key and
\* certificate on disk and the material of the running server exactly as they
\* were, and the process keeps running.
C14_FailedWriteChangesNothing ==
    [][(ev'.op \in {"rotation", "stdin", "control"} /\ ev'.fault # "none")
          => disk' = disk /\ live' = live /\ running']_allVars

\* C15: no scheduled rotation runs before the first-of-month midnight that
\* was computed when it was scheduled, whatever the start time.
C15_NoRotationBeforeTarget ==
    ev.op = "rotation" => clock >= ev.target

\* C17: every control command gets exactly one reply: exit gets bye and the
\* process ends, regen gets ok only with the newly generated pair on disk and
\* installed in the server, and any other command gets unknown and changes
\* nothing.
C17_OneReplyPerCommand ==
    [][ev'.op = "control"
          => /\ Len(ev'.reply) = 1
             /\ ev'.cmd = "exit" => ev'.reply = <<"bye">> /\ ~running'
             /\ ev'.cmd = "regen"
                  => /\ ev'.reply = <<"ok">>
                     /\ gen' = gen + 1
                     /\ disk'.key = gen' /\ disk'.cert.id = gen'
                     /\ live' = [key |-> gen', cert |-> gen']
             /\ ev'.cmd \notin {"exit", "regen"}
                  => /\ ev'.reply = <<"unknown">>
                     /\ UNCHANGED <<running, certVars, slotVars>>]_allVars

\* The last day of month m of year y on which day d can fall.
LastDay(y, m, d) == IF d > DaysInMonth(y, m) THEN DaysInMonth(y, m) ELSE d

\* The month (counted from year 0) in which day d is next due at instant t:
\* the month of t while its day d, or its last day when it has no day d, is
\* still ahead at 02:00, else the month after.
TargetMonth(d, t) ==
    IF NewDate(getFullYear(t), getMonth(t), LastDay(getFullYear(t), getMonth(t), d), 2) > t
    THEN getFullYear(t) * 12 + getMonth(t)
    ELSE getFullYear(t) * 12 + getMonth(t) + 1

\* C16: scheduling for day 31 when the month the rotation is next due in has
\* fewer than 31 days resolves to a date in that month: the month is neither
\* skipped nor overrun.
C16_ShortMonthNotSkipped ==
    (ev.op = "msUntilNextDayOfMonth" /\ day = 31
       /\ DaysInMonth(TargetMonth(day, clock) \div 12, TargetMonth(day, clock) % 12) < day)
      => getFullYear(clock + ms) * 12 + getMonth(clock + ms) = TargetMonth(day, clock)

\* The canonical form of a textual address that has no prefix and no zone.
Canonical(base) == IF base = "::1" THEN "127.0.0.1" ELSE base

\* The canonical forms of the addresses bound to the interfaces.
BoundAddrs ==
    {Canonical(IF a[1] = "::ffff:" THEN a[2] ELSE a[1]) : a \in InterfaceAddrs}

\* C18: the address test says local exactly when the address, without its
\* zone suffix and its IPv4-mapped prefix and with ::1 read as 127.0.0.1, is
\* 127.0.0.1 or bound to an interface; it says not local for every other
\* address and for an absent one.
C18_LocalExactlyLoopbackOrBound ==
    ev.op = "isLocal"
      => verdict = (~ev.absent /\ Canonical(ev.base) \in {"127.0.0.1"} \cup BoundAddrs)

\* C18 witness: the IPv4-mapped form of an address that is not bound has been
\* tested and found not local, and the IPv4-mapped form of a bound address
\* would be found local.
C18_Witness ==
    /\ ev.op = "isLocal"
    /\ address = <<"::ffff:", "203.0.113.5">>
    /\ verdict = FALSE
    /\ IsLocal(<<"::ffff:", "192.168.1.10", "%", "eth0">>)

\* The connections a sequence of deliveries sends requestOffer to, one entry
\* per message.
OffersTo(q) == {i \in DOMAIN q : q[i].msg = RequestOffer}

\* C20: a registration that is accepted and leaves both slots occupied sends
\* exactly one requestOffer, to the party that was registered already (the
\* client on a host registration, the host on a client registration), and
\* none to the connection that has just registered.
C20_OneOfferToOtherParty ==
    [][\A c \in Conns :
         ( /\ ev'.op = "message" /\ ev'.conn = c
           /\ hostSocket' # Null /\ clientSocket' # Null
           /\ \/ TypeIs(ev'.frame, "host") /\ IsLocal(remoteAddress[c])
              \/ /\ TypeIs(ev'.frame, "client")
                 /\ ~IsOpen(clientSocket)
                 /\ Provided(ev'.frame) = currentPasscode.code )
         => /\ Cardinality(OffersTo(out')) = 1
            /\ \A i \in OffersTo(out') :
                 /\ out'[i].to # c
                 /\ out'[i].to = (IF TypeIs(ev'.frame, "host") THEN clientSocket'
                                  ELSE hostSocket')]_vars

\* C19: the slots change only by an accepted host registration (the host
\* slot takes the sender), an accepted client registration (the client slot
\* takes the sender) or the close event of a connection that holds a slot
\* (its slots are emptied).  Every other event leaves both slots as they
\* were: relayed frames, rejected registrations, the passcode timer and the
\* clock, certificate rotation, stdin and control commands, and the close of
\* a connection that holds no slot.
C19_SlotsChangeOnlyByRegistrationOrClose ==
    [][(hostSocket' # hostSocket \/ clientSocket' # clientSocket)
          => \/ /\ ev'.op = "message"
                /\ TypeIs(ev'.frame, "host")
                /\ IsLocal(remoteAddress[ev'.conn])
                /\ hostSocket' = ev'.conn
                /\ clientSocket' = clientSocket
             \/ /\ ev'.op = "message"
                /\ TypeIs(ev'.frame, "client")
                /\ ~IsOpen(clientSocket)
                /\ Provided(ev'.frame) = currentPasscode.code
                /\ clientSocket' = ev'.conn
                /\ hostSocket' = hostSocket
             \/ /\ ev'.op = "close"
                /\ ev'.conn \in {hostSocket, clientSocket}
                /\ hostSocket' = (IF ev'.conn = hostSocket THEN Null ELSE hostSocket)
                /\ clientSocket' = (IF ev'.conn = clientSocket THEN Null ELSE clientSocket)]_allVars

\* C19 witness: a control command has just rotated the certificate while two
\* different connections hold the host slot and the client slot.
C19_Witness ==
    /\ ev.op = "control" /\ ev.cmd = "regen"
    /\ live = [key |-> gen, cert |-> gen] /\ gen > 1
    /\ hostSocket # Null /\ clientSocket # Null /\ hostSocket # clientSocket
    /\ IsOpen(hostSocket) /\ IsOpen(clientSocket)

\* C21: when the occupant of the host slot disconnects, the host slot becomes
\* empty, the client, if there is one, is sent hostDisconnected and the
\* client slot is unchanged; when the occupant of the client slot
\* disconnects, the client slot becomes empty, the host, if there is one, is
\* sent clientDisconnected and the host slot is unchanged.
C21_CloseEmptiesOwnSlotOnly ==
    [][ev'.op = "close"
          => /\ ev'.conn = hostSocket
                  => /\ hostSocket' = Null
                     /\ clientSocket' = clientSocket
                     /\ clientSocket # Null
                          => Sent(clientSocket, HostDisconnected) \in Range(out')
             /\ ev'.conn = clientSocket
                  => /\ clientSocket' = Null
                     /\ hostSocket' = hostSocket
                     /\ hostSocket # Null
                          => Sent(hostSocket, ClientDisconnected) \in Range(out')]_vars

\* The credential a passcodeUpdated message carries.
Credential(m) == [code |-> m.code, expiresAt |-> m.expiresAt, used |-> m.used]

\* C22: every change of the credential is sent as passcodeUpdated to every
\* open connection, every newly attached connection is sent the current
\* credential, and every passcodeUpdated a connection receives carries the
\* current credential, so the last one it received equals the current one.
C22_LastUpdateIsCurrent ==
    [][/\ currentPasscode' # currentPasscode
            => \A c \in Conns :
                 readyState'[c] = "OPEN"
                     => Sent(c, PasscodeUpdated(currentPasscode')) \in Range(out')
       /\ ev'.op = "connection"
            => Sent(ev'.conn, PasscodeUpdated(currentPasscode')) \in Range(out')
       /\ \A i \in DOMAIN out' :
            out'[i].msg.type = "passcodeUpdated"
                => Credential(out'[i].msg) = currentPasscode']_vars

\* C25: a connection from a non-local address that has not been admitted as
\* client is never sent a message that contains the code of the current
\* credential.
C25_CodeOnlyToLocalOrAdmitted ==
    \A i \in DOMAIN out :
        (/\ ~IsLocal(remoteAddress[out[i].to])
         /\ admission[out[i].to] = "none"
         /\ out[i].to # clientSocket)
            => ~(Has(out[i].msg, "code") /\ out[i].msg.code = currentPasscode.code)

\* C26: in every reachable state, if the client slot is empty then the
\* current credential exists (it carries an issued code) and its used flag
\* is false.
C26_EmptyClientSlotMeansUnusedCode ==
    clientSocket = Null
        => /\ currentPasscode.code \in Codes
           /\ currentPasscode.used = FALSE

\* C26 witness: an admitted client has just disconnected; its close emptied
\* the client slot and replaced the code it had used.
C26_Witness ==
    /\ ev.op = "close"
    /\ admission[ev.conn] = "old"
    /\ clientSocket = Null
    /\ currentPasscode.used = FALSE

\* C23: after every firing of the scheduled certificate rotation, whether
\* the rotation succeeded or failed, the process is still running and
\* exactly one rotation timer is pending, for a target that lies ahead.
C23_RotationAlwaysRescheduled ==
    ev.op = "rotation"
        => /\ running
           /\ Cardinality(timers) = 1
           /\ \A t \in timers : t.target > clock

\* C23 witness: a scheduled rotation has just failed to write the
\* certificate, and one timer for the next rotation is pending.
C23_Witness ==
    /\ ev.op = "rotation"
    /\ ev.fault = "cert"
    /\ running
    /\ Cardinality(timers) = 1

\* C24: for every instant and every day of the month from 1 to 31,
\* msUntilNextDayOfMonth returns, and the delay it returns is strictly
\* positive.
C24_DelayIsPositive ==
    ev.op = "msUntilNextDayOfMonth" => (day \in 1..31 /\ ms > 0)

\* C24 witness: called for day 31 at 02:00 on 31 January, the very instant of
\* this month's target; the month search passes February and returns the
\* delay to 31 March.
C24_Witness ==
    /\ ev.op = "msUntilNextDayOfMonth"
    /\ day = 31
    /\ clock = NewDate(EpochYear, 0, 31, 2)
    /\ ms = NewDate(EpochYear, 2, 31, 2) - clock
    /\ ms > 0

\* C27: a run of the launcher's stop (exit) or regen command ends only when
\* its control exchange has resolved, that is when the command was written
\* and the server's reply printed, or when the connection error was
\* reported; and stop removes the PID file only in a run in which the exit
\* command was written to the server.
C27_ControlExchangeResolvesBeforeExit ==
    [][(ev'.op = "launcher" /\ ev'.cmd \in {"exit", "stop", "regen"})
          => /\ \/ ev'.written /\ ev'.printed # <<>>
                \/ ev'.reported
             /\ pidFile' # pidFile => ev'.written]_allVars

====
